---- MODULE Spec2Model ----
(***************************************************************************)
(* FM Converter (fm_converter.py, fm_converter_gui.py): the fixed-width    *)
(* record codec, the identifier cleaning, the matched / unmatched          *)
(* reconciliation and selection, and the batch writer.                     *)
(*                                                                         *)
(* Text is a sequence of character tokens: a printable ASCII character is  *)
(* the one-character string, the few non-ASCII characters the model uses   *)
(* have named tokens.  A byte is an integer 0..255.  A missing table cell  *)
(* (pandas' float nan) is the distinguished value NaN.                     *)
(***************************************************************************)
EXTENDS Integers, Sequences, FiniteSets, TLC

----------------------------------------------------------------------------
(* Characters *)

\* The printable ASCII characters in code-point order, from 32 (space); the
\* grave accent (96) has a named token.
Printable ==
    << " ", "!", "\"", "#", "$", "%", "&", "'", "(", ")", "*", "+", ",", "-", ".", "/",
       "0", "1", "2", "3", "4", "5", "6", "7", "8", "9", ":", ";", "<", "=", ">", "?",
       "@", "A", "B", "C", "D", "E", "F", "G", "H", "I", "J", "K", "L", "M", "N", "O",
       "P", "Q", "R", "S", "T", "U", "V", "W", "X", "Y", "Z", "[", "\\", "]", "^", "_",
       "GRAVE", "a", "b", "c", "d", "e", "f", "g", "h", "i", "j", "k", "l", "m", "n", "o",
       "p", "q", "r", "s", "t", "u", "v", "w", "x", "y", "z", "{", "|", "}", "~" >>

AsciiChars == {Printable[i] : i \in 1..Len(Printable)}

\* Non-ASCII characters: full-width A (U+FF21), a (U+FF41), 1 (U+FF11), the CJK
\* ideograph U+9673, the ideographic space U+3000 and the emoji U+1F600.
Chars == AsciiChars \cup {"FW_A", "FW_a", "FW_1", "CJK", "IDSP", "EMOJI"}

CodePoints ==
    [c \in Chars |->
        IF c \in AsciiChars
        THEN 31 + (CHOOSE i \in 1..Len(Printable) : Printable[i] = c)
        ELSE CASE c = "FW_A"  -> 65313
               [] c = "FW_a"  -> 65345
               [] c = "FW_1"  -> 65297
               [] c = "CJK"   -> 38515
               [] c = "IDSP"  -> 12288
               [] c = "EMOJI" -> 128512]

CodePoint(c) == CodePoints[c]

IsAscii(c) == CodePoints[c] < 128

\* The characters str.strip() removes.
WhiteSpace == {" ", "IDSP"}

\* str.isdigit of one character, and the digit's value.
IsDigitChar(c) == (IsAscii(c) /\ CodePoint(c) \in 48..57) \/ c = "FW_1"

DigitVal(c) == IF c = "FW_1" THEN 1 ELSE CodePoint(c) - 48

\* str.upper of one character.
UpperChar(c) ==
    IF IsAscii(c)
    THEN IF CodePoint(c) \in 97..122 THEN Printable[CodePoint(c) - 32 - 31] ELSE c
    ELSE IF c = "FW_a" THEN "FW_A" ELSE c

----------------------------------------------------------------------------
(* Python str operations *)

\* s.lstrip(chars) and s.rstrip(chars): s from its first, or up to its last,
\* character outside chars.
Kept(s, chars) == {i \in 1..Len(s) : s[i] \notin chars}

LStrip(s, chars) ==
    IF Kept(s, chars) = {} THEN <<>>
    ELSE SubSeq(s, CHOOSE i \in Kept(s, chars) : \A j \in Kept(s, chars) : i <= j, Len(s))

RStrip(s, chars) ==
    IF Kept(s, chars) = {} THEN <<>>
    ELSE SubSeq(s, 1, CHOOSE i \in Kept(s, chars) : \A j \in Kept(s, chars) : i >= j)

\* s.strip()
Strip(s) == RStrip(LStrip(s, WhiteSpace), WhiteSpace)

\* s.upper()
Upper(s) == [i \in 1..Len(s) |-> UpperChar(s[i])]

\* s.replace(c, ""), by halves.
RECURSIVE Remove(_, _)
Remove(s, c) ==
    IF Len(s) = 0 THEN <<>>
    ELSE IF Len(s) = 1 THEN (IF s[1] = c THEN <<>> ELSE s)
    ELSE Remove(SubSeq(s, 1, Len(s) \div 2), c)
         \o Remove(SubSeq(s, Len(s) \div 2 + 1, Len(s)), c)

\* s.isdigit()
IsDigit(s) == s # <<>> /\ \A i \in 1..Len(s) : IsDigitChar(s[i])

\* int(s) accepts surrounding whitespace and decimal digits.
CanInt(s) == IsDigit(Strip(s))

RECURSIVE DigitsValue(_)
DigitsValue(s) ==
    IF s = <<>> THEN 0
    ELSE 10 * DigitsValue(SubSeq(s, 1, Len(s) - 1)) + DigitVal(s[Len(s)])

IntOf(s) == DigitsValue(Strip(s))

\* The decimal digits of n >= 0.
RECURSIVE Decimal(_)
Decimal(n) ==
    IF n < 10 THEN <<Printable[n + 17]>>
    ELSE Decimal(n \div 10) \o <<Printable[(n % 10) + 17]>>

\* f"{n:04d}"
RECURSIVE ZeroFill(_, _)
ZeroFill(s, w) == IF Len(s) >= w THEN s ELSE ZeroFill(<<"0">> \o s, w)

Format04d(n) == ZeroFill(Decimal(n), 4)

\* A missing cell, and str(value) of a cell.
NaN == <<"<nan>">>

IsStr(v) == v # NaN

PyStr(v) == IF v = NaN THEN <<"n", "a", "n">> ELSE v

\* Comparison of two strings by code point, as Python and pandas order them.
RECURSIVE StrLess(_, _)
StrLess(a, b) ==
    IF b = <<>> THEN FALSE
    ELSE IF a = <<>> THEN TRUE
    ELSE IF Head(a) = Head(b) THEN StrLess(Tail(a), Tail(b))
    ELSE CodePoint(Head(a)) < CodePoint(Head(b))

----------------------------------------------------------------------------
(* Encoding *)

ENCODING == "utf-8"

BIG5 == "cp950"

Encodings == {ENCODING, BIG5}

Utf8(c) ==
    LET cp == CodePoint(c) IN
    IF cp < 128 THEN <<cp>>
    ELSE IF cp < 2048 THEN <<192 + (cp \div 64), 128 + (cp % 64)>>
    ELSE IF cp < 65536
    THEN <<224 + (cp \div 4096), 128 + ((cp \div 64) % 64), 128 + (cp % 64)>>
    ELSE <<240 + (cp \div 262144), 128 + ((cp \div 4096) % 64),
           128 + ((cp \div 64) % 64), 128 + (cp % 64)>>

\* cp950 of the model's characters; errors="replace" gives "?" for the rest.
Cp950(c) ==
    IF IsAscii(c) THEN <<CodePoint(c)>>
    ELSE CASE c = "FW_A" -> <<162, 207>>
           [] c = "FW_a" -> <<162, 233>>
           [] c = "FW_1" -> <<162, 176>>
           [] c = "CJK"  -> <<179, 175>>
           [] c = "IDSP" -> <<161, 64>>
           [] OTHER      -> <<63>>

\* The bytes of every character in either encoding.
EncodedChars ==
    [enc \in Encodings |-> [c \in Chars |-> IF enc = BIG5 THEN Cp950(c) ELSE Utf8(c)]]

\* s.encode(enc, errors="replace"), by halves.
RECURSIVE Encode(_, _)
Encode(s, enc) ==
    IF Len(s) = 0 THEN <<>>
    ELSE IF Len(s) = 1 THEN EncodedChars[enc][s[1]]
    ELSE Encode(SubSeq(s, 1, Len(s) \div 2), enc)
         \o Encode(SubSeq(s, Len(s) \div 2 + 1, Len(s)), enc)

Spaces(n) == [i \in 1..n |-> 32]

\* raw[:width]
Truncate(raw, width) == SubSeq(raw, 1, IF Len(raw) < width THEN Len(raw) ELSE width)

\* _fw with the padding on the other side.
FwPadSwapped(value, width, align, enc) ==
    LET raw == Truncate(Encode(PyStr(value), enc), width)
        pad_bytes == Spaces(width - Len(raw))
    IN  IF align = "l" THEN pad_bytes \o raw ELSE raw \o pad_bytes

_fw(value, width, align, enc) ==
    LET raw == Truncate(Encode(PyStr(value), enc), width)
        pad_bytes == Spaces(width - Len(raw))
    IN  IF align = "l" THEN raw \o pad_bytes ELSE pad_bytes \o raw

----------------------------------------------------------------------------
(* Record codec *)

RECORD_LEN == 208

FIELD_SPECS ==
    << [name |-> "SEGMENT", width |-> 1], [name |-> "PLAN_NO", width |-> 2],
       [name |-> "BRANCH_CODE", width |-> 1], [name |-> "HOSP_ID", width |-> 10],
       [name |-> "ID", width |-> 10], [name |-> "BIRTHDAY", width |-> 8],
       [name |-> "NAME", width |-> 12], [name |-> "SEX", width |-> 1],
       [name |-> "INFORM_ADDR", width |-> 120], [name |-> "TEL", width |-> 15],
       [name |-> "PRSN_ID", width |-> 10], [name |-> "CASE_TYPE", width |-> 1],
       [name |-> "CASE_DATE", width |-> 8], [name |-> "CLOSE_DATE", width |-> 8],
       [name |-> "CLOSE_RSN", width |-> 1] >>

\* CASE_TYPE_MAP.get(case_num, "B")
CASE_TYPE_MAP(case_num) ==
    IF case_num \in {1, 2, 3, 4, 5, 7} THEN <<"A">>
    ELSE IF case_num = 6 THEN <<"C">>
    ELSE <<"B">>

\* roc_to_gregorian either returns a string or raises ValueError: the length
\* test, or int() of the year part.
RocClean(roc_date) == Remove(Remove(roc_date, "/"), "-")

RocYearPart(roc_date) == SubSeq(RocClean(roc_date), 1, Len(RocClean(roc_date)) - 4)

RocMonthDay(roc_date) ==
    SubSeq(RocClean(roc_date), Len(RocClean(roc_date)) - 3, Len(RocClean(roc_date)))

RocRaises(roc_date) ==
    \/ Len(RocClean(roc_date)) \notin {6, 7}
    \/ ~CanInt(RocYearPart(roc_date))

roc_to_gregorian(roc_date) ==
    Format04d(IntOf(RocYearPart(roc_date)) + 1911) \o RocMonthDay(roc_date)

_map_sex(id_number) ==
    IF ~IsStr(id_number) \/ Len(id_number) < 2 THEN <<>>
    ELSE IF id_number[2] \in {"1", "8"} THEN <<"1">>
    ELSE IF id_number[2] \in {"2", "9"} THEN <<"2">>
    ELSE <<>>

_clean_id(value) ==
    IF ~IsStr(value) THEN <<>>
    ELSE Upper(RStrip(LStrip(Strip(value), {"'"}), {"'"}))

\* s.endswith(".0")
EndsWithDotZero(s) == Len(s) >= 2 /\ s[Len(s) - 1] = "." /\ s[Len(s)] = "0"

\* A table never holds None: a missing cell is nan, and str(nan) is "nan".
_clean_tel(value) ==
    LET s0 == Strip(PyStr(value))
        head == SubSeq(s0, 1, Len(s0) - 2)
        s1 == IF EndsWithDotZero(s0) /\ IsDigit(head) THEN head ELSE s0
    IN  IF s1 # <<>> /\ Head(s1) # "0" THEN <<"0">> \o s1 ELSE s1

\* The values dictionary of build_record, in FIELD_SPECS order.  row is a
\* record of cells (id, name, birthday, addr, tel, case); a column the row
\* lacks reads as "".
RecordValues(row, fixed, start_date, end_date, segment_type, close_reason) ==
    LET birthday_roc == Strip(PyStr(row.birthday))
        raw_case == LStrip(Strip(PyStr(row.case)), {"'"})
        case_num == IF IsDigit(raw_case) THEN IntOf(raw_case) ELSE 0
        formatted_start_date == RocClean(start_date)
        formatted_end_date == IF segment_type = <<"B">> THEN RocClean(end_date) ELSE <<>>
        final_close_reason == IF segment_type = <<"B">> THEN close_reason ELSE <<>>
    IN  << segment_type, fixed.PLAN_NO, fixed.BRANCH_CODE, fixed.HOSP_ID,
           row.id, roc_to_gregorian(birthday_roc), row.name, _map_sex(row.id),
           row.addr, _clean_tel(row.tel), fixed.PRSN_ID, CASE_TYPE_MAP(case_num),
           formatted_start_date, formatted_end_date, final_close_reason >>

\* The b"".join of build_record, with the widths and alignments it writes.
JoinRecord(values, encoding) ==
       _fw(values[1], 1, "l", encoding)
    \o _fw(values[2], 2, "r", encoding)
    \o _fw(values[3], 1, "l", encoding)
    \o _fw(values[4], 10, "r", encoding)
    \o _fw(values[5], 10, "l", encoding)
    \o _fw(values[6], 8, "r", encoding)
    \o _fw(values[7], 12, "l", encoding)
    \o _fw(values[8], 1, "l", encoding)
    \o _fw(values[9], 120, "l", encoding)
    \o _fw(values[10], 15, "l", encoding)
    \o _fw(values[11], 10, "r", encoding)
    \o _fw(values[12], 1, "l", encoding)
    \o _fw(values[13], 8, "r", encoding)
    \o _fw(values[14], 8, "r", encoding)
    \o _fw(values[15], 1, "l", encoding)

\* The assert on the length of the record, and the return.
AssertLength(record) ==
    IF Len(record) # RECORD_LEN
    THEN [raised |-> "AssertionError", record |-> <<>>]
    ELSE [raised |-> "none", record |-> record]

\* The birthday check of build_record and the ValueError of roc_to_gregorian.
BirthdayRaises(birthday_roc) == birthday_roc = <<>> \/ RocRaises(birthday_roc)

\* build_record returns the record (raised = "none") or raises: ValueError for
\* a missing or malformed birthday, AssertionError for a record of another
\* length than RECORD_LEN.
build_record(row, fixed, start_date, end_date, segment_type, close_reason, encoding) ==
    IF BirthdayRaises(Strip(PyStr(row.birthday)))
    THEN [raised |-> "ValueError", record |-> <<>>]
    ELSE AssertLength(JoinRecord(RecordValues(row, fixed, start_date, end_date,
                                              segment_type, close_reason), encoding))

----------------------------------------------------------------------------
(* Tables *)

\* A visit row (long_df) has the cells id, name, birthday, addr, tel; a
\* registered row (short_df) has id, birthday, case.  These are the columns the
\* rename map of convert expects: of the merged row, id, birthday and case come
\* from short_df (suffix _x), name, addr and tel from long_df (suffix _y).

\* seq[keep], for a boolean mask keep over the rows of seq.
RECURSIVE Mask(_, _)
Mask(seq, keep) ==
    IF seq = <<>> THEN <<>>
    ELSE (IF keep[1] THEN <<Head(seq)>> ELSE <<>>)
         \o Mask(Tail(seq), [i \in 1..(Len(seq) - 1) |-> keep[i + 1]])

Range(seq) == {seq[i] : i \in 1..Len(seq)}

\* df['id'].astype(str).str.strip()
SanitizeIds(df) == [i \in 1..Len(df) |-> [df[i] EXCEPT !.id = Strip(PyStr(df[i].id))]]

\* long_df.dropna(subset=[tel, name, birthday]), then the rows whose phone is
\* not blank.
DropIncomplete(df) ==
    LET full == Mask(df, [i \in 1..Len(df) |->
                    df[i].tel # NaN /\ df[i].name # NaN /\ df[i].birthday # NaN])
    IN  Mask(full, [i \in 1..Len(full) |-> Strip(PyStr(full[i].tel)) # <<>>])

ShortIds(short) == {_clean_id(short[i].id) : i \in 1..Len(short)} \ {<<>>}

\* The eligible visits: not in the short list, and an id that gives a sex code.
EligibleRows(long, short) ==
    LET long1 == DropIncomplete(SanitizeIds(long))
        short_ids == ShortIds(SanitizeIds(short))
        unmatched == Mask(long1, [i \in 1..Len(long1) |->
                         _clean_id(long1[i].id) \notin short_ids])
    IN  Mask(unmatched, [i \in 1..Len(unmatched) |-> _map_sex(unmatched[i].id) # <<>>])

\* GroupBy 'first': the first non-null cell of a column within the group.
RECURSIVE FirstNonNull(_)
FirstNonNull(cells) ==
    IF cells = <<>> THEN NaN
    ELSE IF Head(cells) # NaN THEN Head(cells)
    ELSE FirstNonNull(Tail(cells))

\* eligible_df.groupby(id).agg(visit_count = size, first of the other columns)
GroupOf(df, id) ==
    LET rows == Mask(df, [i \in 1..Len(df) |-> df[i].id = id]) IN
    [ id |-> id,
      visit_count |-> Len(rows),
      name     |-> FirstNonNull([i \in 1..Len(rows) |-> rows[i].name]),
      birthday |-> FirstNonNull([i \in 1..Len(rows) |-> rows[i].birthday]),
      addr     |-> FirstNonNull([i \in 1..Len(rows) |-> rows[i].addr]),
      tel      |-> FirstNonNull([i \in 1..Len(rows) |-> rows[i].tel]),
      case     |-> <<>> ]

Aggregate(df) == {GroupOf(df, id) : id \in {df[i].id : i \in 1..Len(df)}}

\* sort_values(by = [visit_count, birthday], ascending = [False, False]): a
\* stable sort of the groups, which groupby leaves in ascending id order.
\* RankedBefore with the birth dates in ascending order.
RankedBirthdayAscending(g, h) ==
    \/ g.visit_count > h.visit_count
    \/ g.visit_count = h.visit_count /\ StrLess(PyStr(g.birthday), PyStr(h.birthday))
    \/ g.visit_count = h.visit_count /\ PyStr(g.birthday) = PyStr(h.birthday)
       /\ StrLess(g.id, h.id)

RankedBefore(g, h) ==
    \/ g.visit_count > h.visit_count
    \/ g.visit_count = h.visit_count /\ StrLess(PyStr(h.birthday), PyStr(g.birthday))
    \/ g.visit_count = h.visit_count /\ PyStr(g.birthday) = PyStr(h.birthday)
       /\ StrLess(g.id, h.id)

RECURSIVE SortGroups(_)
SortGroups(groups) ==
    IF groups = {} THEN <<>>
    ELSE LET top == CHOOSE g \in groups : \A h \in groups \ {g} : RankedBefore(g, h)
         IN  <<top>> \o SortGroups(groups \ {top})

\* df.head(n)
head(df, n) == SubSeq(df, 1, IF Len(df) < n THEN Len(df) ELSE n)

\* sorted_df.head(200), the batch limit scaled to the size of the model's tables.
HEAD_LIMIT == 2

\* merge_sources: the inner join of short_df (left) and long_df (right) on the
\* cleaned id, in the order of the left rows, each with its matches in the
\* order of the right rows.
MergedRow(s, l) ==
    [ id |-> s.id, birthday |-> s.birthday, case |-> s.case,
      name |-> l.name, addr |-> l.addr, tel |-> l.tel, visit_count |-> 0 ]

RECURSIVE MatchesOf(_, _)
MatchesOf(s, long) ==
    IF long = <<>> THEN <<>>
    ELSE (IF _clean_id(Head(long).id) = _clean_id(s.id)
          THEN <<MergedRow(s, Head(long))>> ELSE <<>>)
         \o MatchesOf(s, Tail(long))

RECURSIVE merge_sources(_, _)
merge_sources(long_df0, short_df0) ==
    IF short_df0 = <<>> THEN <<>>
    ELSE MatchesOf(Head(short_df0), long_df0) \o merge_sources(long_df0, Tail(short_df0))

\* merged.drop_duplicates(subset = id): the first row of each id is kept.
DropDuplicates(df) ==
    Mask(df, [i \in 1..Len(df) |-> \A j \in 1..(i - 1) : df[j].id # df[i].id])

\* merged.sort_values(id): ascending, a missing id last.  The ids are distinct.
IdBefore(a, b) == a # NaN /\ (b = NaN \/ StrLess(a, b))

RECURSIVE SortById(_)
SortById(rows) ==
    IF rows = {} THEN <<>>
    ELSE LET top == CHOOSE r \in rows : \A q \in rows \ {r} : IdBefore(r.id, q.id)
         IN  <<top>> \o SortById(rows \ {top})

----------------------------------------------------------------------------
(* convert *)

\* chunks(lst, n): the successive n-sized slices of lst.
RECURSIVE chunks(_, _)
chunks(lst, n) ==
    IF lst = <<>> THEN <<>>
    ELSE IF Len(lst) <= n THEN <<lst>>
    ELSE <<SubSeq(lst, 1, n)>> \o chunks(SubSeq(lst, n + 1, Len(lst)), n)

\* f"{idx:02d}"
Format02d(n) == ZeroFill(Decimal(n), 2)

FileSuffix(mode) ==
    IF mode = "unmatched" THEN <<"F", "M", "_", "B", ".", "t", "x", "t">>
    ELSE <<"F", "M", ".", "t", "x", "t">>

\* CHUNK_SIZE: 9999 records a file in matched mode and 200 in any other,
\* scaled to the size of the model's tables as the batch limit is.
MATCHED_CHUNK == 3

OTHER_CHUNK == 2

ChunkSize(mode) == IF mode = "matched" THEN MATCHED_CHUNK ELSE OTHER_CHUNK

CRLF == <<13, 10>>

\* The bytes one chunk's file holds: every record followed by CRLF.
RECURSIVE FileBytes(_)
FileBytes(chunk) ==
    IF chunk = <<>> THEN <<>> ELSE Head(chunk) \o CRLF \o FileBytes(Tail(chunk))

\* The files convert writes for the records, numbered from seq_start.
WriteFiles(recs, fixed, upload_month, seq_start, mode) ==
    LET cs == chunks(recs, ChunkSize(mode)) IN
    [i \in 1..Len(cs) |->
        [ name |-> fixed.BRANCH_CODE \o fixed.HOSP_ID \o upload_month
                   \o Format02d(seq_start + i - 1) \o FileSuffix(mode),
          bytes |-> FileBytes(cs[i]) ]]

\* The rows convert encodes (df_to_process), or the way it ends before the
\* encoding loop: an empty list returned in unmatched mode, ValueError raised
\* by merge_sources in any other mode.
Select(long, short, mode) ==
    IF mode = "unmatched"
    THEN LET eligible_df == EligibleRows(long, short) IN
         IF eligible_df = <<>>
         THEN [ended |-> "empty", rows |-> <<>>]
         ELSE [ended |-> "no",
               rows |-> head(SortGroups(Aggregate(eligible_df)), HEAD_LIMIT)]
    ELSE LET merged == merge_sources(long, short) IN
         IF merged = <<>>
         THEN [ended |-> "ValueError", rows |-> <<>>]
         ELSE [ended |-> "no", rows |-> SortById(Range(DropDuplicates(merged)))]

\* The encoding loop: a row whose build_record raises is logged and skipped.
Built(rows, a) ==
    [i \in 1..Len(rows) |->
        build_record(rows[i], a.fixed, a.start_date, a.end_date, a.segment_type,
                     a.close_reason, a.out_encoding)]

Encoded(built) ==
    LET good == Mask(built, [i \in 1..Len(built) |-> built[i].raised = "none"])
    IN  [i \in 1..Len(good) |-> good[i].record]

Skipped(rows, built) ==
    Mask([i \in 1..Len(rows) |-> rows[i].id],
         [i \in 1..Len(built) |-> built[i].raised # "none"])

\* The end of convert: the empty list when no record was built, the files
\* written otherwise.
WriteOrNothing(rows, recs, skipped_ids, a) ==
    IF recs = <<>>
    THEN [status |-> "Nothing", error |-> "none", df_to_process |-> rows,
          records |-> <<>>, skipped |-> skipped_ids, files |-> <<>>]
    ELSE [status |-> "Written", error |-> "none", df_to_process |-> rows,
          records |-> recs, skipped |-> skipped_ids,
          files |-> WriteFiles(recs, a.fixed, a.upload_month, a.seq_start, a.mode)]

EncodeRows(rows, built, a) ==
    WriteOrNothing(rows, Encoded(built), Skipped(rows, built), a)

\* convert from the selection on.
ConvertSelected(sel, a) ==
    IF sel.ended = "ValueError"
    THEN [status |-> "Failed", error |-> "ValueError", df_to_process |-> <<>>,
          records |-> <<>>, skipped |-> <<>>, files |-> <<>>]
    ELSE IF sel.ended = "empty"
    THEN [status |-> "Nothing", error |-> "none", df_to_process |-> <<>>,
          records |-> <<>>, skipped |-> <<>>, files |-> <<>>]
    ELSE EncodeRows(sel.rows, Built(sel.rows, a), a)

\* convert(long, short, ...) with the arguments a: how the run ends and what
\* it leaves.
convert(long, short, a) == ConvertSelected(Select(long, short, a.mode), a)

----------------------------------------------------------------------------
(* State *)

VARIABLES
    long_df,        \* the visits table (整年度看診名單), as loaded
    short_df,       \* the registered table (健保署下載名單), as loaded
    status,         \* "Idle", or how the last run ended
    error,          \* the exception the last run ended with, or "none"
    call,           \* the arguments of the last run
    df_to_process,  \* the rows the last run selected for encoding
    records,        \* the records the last run encoded
    skipped,        \* the ids the last run logged as skipped
    written,        \* the paths the last run returned
    outdir,         \* the files in the output directory
    runs,           \* the number of runs so far
    offered,        \* the keys selected by the unmatched runs before the last
    prior,          \* the mode and the records of the run before the last
    probe           \* a single call of a pure function and its result

vars == << long_df, short_df, status, error, call, df_to_process, records, skipped,
           written, outdir, runs, offered, prior, probe >>

\* Bounds of the model.
MaxVisits == 3

MaxRegistered == 2

MaxRuns == 2

SeqsUpTo(S, n) == UNION {[1..k -> S] : k \in 0..n}

\* Identifiers and cells of the model's tables.
IdTail == <<"2", "3", "4", "5", "6", "7", "8", "9">>

ID_A == <<"A", "1">> \o IdTail

ID_a == <<"a", "1">> \o IdTail

ID_B == <<"B", "2">> \o IdTail

ID_b == <<"b", "2">> \o IdTail

ID_E == <<"E", "8">> \o IdTail

Bday85 == <<"0", "8", "5", "0", "1", "0", "1">>

Bday70 == <<"0", "7", "0", "0", "2", "0", "2">>

Bday90 == <<"9", "0", "0", "3", "0", "3">>

BdayShort == <<"8", "5">>

BdayLetter == <<"0", "8", "5", "0", "a", "0", "1">>

Tel9 == <<"9", "1", "2", "3", "4", "5", "6", "7", "8">>

Tel0 == <<"0", "2", "2", "3", "4", ".", "0">>

VisitRows ==
    { [id |-> ID_A, name |-> <<"X">>, birthday |-> Bday85, addr |-> <<"R", "1">>, tel |-> Tel9],
      [id |-> ID_A, name |-> <<" ", " ">>, birthday |-> Bday70, addr |-> NaN, tel |-> Tel0],
      [id |-> ID_B, name |-> <<"CJK", "CJK">>, birthday |-> BdayShort, addr |-> <<"R", "2">>, tel |-> Tel9],
      [id |-> ID_E, name |-> <<"W">>, birthday |-> Bday85, addr |-> <<"R", "3">>, tel |-> Tel0],
      [id |-> NaN, name |-> <<"Z">>, birthday |-> Bday90, addr |-> <<"R", "5">>, tel |-> Tel9] }

RegisteredRows ==
    { [id |-> ID_A, birthday |-> Bday85, case |-> <<"6">>],
      [id |-> ID_a, birthday |-> Bday70, case |-> <<"9">>],
      [id |-> ID_B, birthday |-> BdayShort, case |-> <<"3">>],
      [id |-> NaN, birthday |-> Bday90, case |-> NaN] }

\* The run constants the operator enters.
Fixed ==
    [ PLAN_NO |-> <<"0", "9">>, BRANCH_CODE |-> <<"1">>,
      HOSP_ID |-> <<"0", "1", "2", "3", "4", "5", "6", "7", "8", "9">>,
      PRSN_ID |-> <<"A", "1", "0", "0", "0", "0", "0", "0", "0", "1">> ]

UploadMonth == <<"0", "7">>

StartDate == <<"2", "0", "2", "5", "/", "0", "1", "/", "0", "1">>

EndDate == <<"2", "0", "2", "5", "1", "2", "3", "1">>

CloseReason == <<"1">>

Segments == {<<"A">>, <<"B">>}

Modes == {"matched", "unmatched", "next_batch"}

Args(mode, segment_type, out_encoding) ==
    [ fixed |-> Fixed, upload_month |-> UploadMonth, start_date |-> StartDate,
      end_date |-> EndDate, segment_type |-> segment_type,
      close_reason |-> CloseReason, seq_start |-> 1,
      out_encoding |-> out_encoding, mode |-> mode ]

NoProbe == [kind |-> "none"]

NoCall == [via |-> "none"]

\* Nothing has run yet.
Idle ==
    /\ status = "Idle"
    /\ error = "none"
    /\ call = NoCall
    /\ df_to_process = <<>>
    /\ records = <<>>
    /\ skipped = <<>>
    /\ written = <<>>
    /\ outdir = {}
    /\ runs = 0
    /\ offered = {}
    /\ prior = [mode |-> "none", records |-> <<>>]

Init ==
    /\ long_df \in SeqsUpTo(VisitRows, MaxVisits)
    /\ short_df \in SeqsUpTo(RegisteredRows, MaxRegistered)
    /\ Idle
    /\ probe = NoProbe

\* The PatientKeys of a selection.
KeysOf(rows) == {_clean_id(rows[i].id) : i \in 1..Len(rows)}

\* fpath.open("wb") replaces a file of the same name.
AfterWrite(dir, files) ==
    {f \in dir : \A i \in 1..Len(files) : files[i].name # f.name} \cup Range(files)

\* What every run leaves, given its result r and its arguments c.
Finish(result, c) ==
    LET r == result IN
    /\ status' = r.status
    /\ error' = r.error
    /\ call' = c
    /\ df_to_process' = r.df_to_process
    /\ records' = r.records
    /\ skipped' = r.skipped
    /\ written' = [i \in 1..Len(r.files) |-> r.files[i].name]
    /\ outdir' = AfterWrite(outdir, r.files)
    /\ runs' = runs + 1
    /\ offered' = IF call # NoCall /\ call.mode = "unmatched"
                  THEN offered \cup KeysOf(df_to_process) ELSE offered
    /\ prior' = [mode |-> IF call = NoCall THEN "none" ELSE call.mode,
                  records |-> records]
    /\ UNCHANGED << long_df, short_df, probe >>

\* A call of fm_converter.convert.
Convert(mode, segment_type, out_encoding) ==
    /\ Finish(convert(long_df, short_df, Args(mode, segment_type, out_encoding)),
              [via |-> "convert", mode |-> mode, rejection_var |-> "", rejected |-> {},
               args |-> Args(mode, segment_type, out_encoding)])

\* The parameters of fm_converter.convert, and the keywords the GUI calls it
\* with.
ConvertParameters ==
    { "long_path", "short_path", "fixed", "upload_month", "start_date", "end_date",
      "segment_type", "close_reason", "seq_start", "out_encoding", "outdir", "mode" }

GuiKeywords ==
    { "long_path", "short_path", "fixed", "upload_month", "start_date", "end_date",
      "segment_type", "close_reason", "seq_start", "out_encoding", "outdir", "mode",
      "rejection_path" }

\* What a run that raised leaves.
Raised(exc) ==
    [status |-> "Failed", error |-> exc, df_to_process |-> <<>>, records |-> <<>>,
     skipped |-> <<>>, files |-> <<>>]

\* What the handler leaves when a required field is empty: an error box, and
\* no call of convert.
Rejected ==
    [status |-> "InputError", error |-> "none", df_to_process |-> <<>>,
     records |-> <<>>, skipped |-> <<>>, files |-> <<>>]

\* ConverterGUI.convert, the handler of the Convert button: task_var,
\* segment_var, big5_var and rejection_var are the form's fields, rejected the
\* row numbers the rejection file names; the other required fields are filled.
GuiConvert(task_var, segment_var, big5_var, rejection_var, rejected) ==
    LET segment_type == IF task_var \in {"unmatched", "next_batch"}
                        THEN <<"A">> ELSE segment_var
        a == Args(task_var, segment_type, IF big5_var THEN BIG5 ELSE ENCODING)
        c == [via |-> "gui", mode |-> task_var, rejection_var |-> rejection_var,
              rejected |-> rejected, args |-> a]
    IN  /\ IF task_var = "next_batch" /\ rejection_var = ""
           THEN Finish(Rejected, c)
           ELSE IF ~(GuiKeywords \subseteq ConvertParameters)
           THEN Finish(Raised("TypeError"), c)
           ELSE Finish(convert(long_df, short_df, a), c)

\* One conversion: a call of convert, or a press of the Convert button.
Run ==
    \/ \E mode \in Modes, segment_type \in Segments :
          Convert(mode, segment_type, ENCODING)
    \/ \E task_var \in Modes, segment_var \in Segments, big5_var \in BOOLEAN,
          rejection_var \in {"", "rejected.csv"},
          rejected \in SUBSET (1..Len(records)) :
          GuiConvert(task_var, segment_var, big5_var, rejection_var, rejected)

\* A single conversion of the tables.
Next == runs = 0 /\ Run

Spec == Init /\ [][Next]_vars

\* Conversions of the same tables into the same output directory, one after
\* the other.
RunsVisitRows ==
    { [id |-> ID_A, name |-> <<"X">>, birthday |-> Bday85, addr |-> <<"R", "1">>, tel |-> Tel9],
      [id |-> ID_B, name |-> <<"Y">>, birthday |-> Bday70, addr |-> <<"R", "2">>, tel |-> Tel9],
      [id |-> ID_E, name |-> <<"W">>, birthday |-> Bday90, addr |-> <<"R", "3">>, tel |-> Tel0] }

InitRuns ==
    /\ long_df \in SeqsUpTo(RunsVisitRows, MaxVisits)
    /\ short_df \in SeqsUpTo({[id |-> ID_A, birthday |-> Bday85, case |-> <<"6">>]}, 1)
    /\ Idle
    /\ probe = NoProbe

NextRuns == runs < MaxRuns /\ Run

SpecRuns == InitRuns /\ [][NextRuns]_vars

----------------------------------------------------------------------------
(* build_record on its own *)

\* The length of the over-long field values.
LongLen == 70

Long(c) == [i \in 1..LongLen |-> c]

CodecRows ==
    [ id : {ID_A, NaN, <<>>, Long("FW_A")},
      name : {<<>>, <<"X">>, <<"CJK", "CJK", "CJK", "CJK", "CJK">>, Long("EMOJI")},
      birthday : {Bday85, Bday90, BdayShort},
      addr : {NaN, <<"R", "1">>, Long("CJK")},
      tel : {<<>>, Tel9, Long("1")},
      case : {<<>>, <<"6">>, <<"9">>} ]

CodecConstants ==
    { [fixed |-> Fixed, start_date |-> StartDate, end_date |-> EndDate,
       close_reason |-> CloseReason],
      [fixed |-> [PLAN_NO |-> <<>>, BRANCH_CODE |-> Long("1"), HOSP_ID |-> <<"CJK">>,
                  PRSN_ID |-> Long("EMOJI")],
       start_date |-> Long("2"), end_date |-> <<>>, close_reason |-> Long("FW_1")] }

InitCodec ==
    /\ long_df = <<>>
    /\ short_df = <<>>
    /\ Idle
    /\ \E row \in CodecRows, c \in CodecConstants, segment_type \in Segments,
          encoding \in Encodings :
          probe = [kind |-> "build_record", row |-> row, fixed |-> c.fixed,
                   start_date |-> c.start_date, end_date |-> c.end_date,
                   segment_type |-> segment_type, close_reason |-> c.close_reason,
                   encoding |-> encoding, done |-> FALSE, ret |-> <<>>]

\* One call of build_record.
BuildRecord ==
    /\ probe.kind = "build_record"
    /\ ~probe.done
    /\ probe' = [probe EXCEPT
                    !.done = TRUE,
                    !.ret = build_record(probe.row, probe.fixed, probe.start_date,
                                         probe.end_date, probe.segment_type,
                                         probe.close_reason, probe.encoding)]
    /\ UNCHANGED << long_df, short_df, status, error, call, df_to_process, records,
                    skipped, written, outdir, runs, offered, prior >>

SpecCodec == InitCodec /\ [][BuildRecord]_vars

\* The declared layout: FIELD_SPECS gives the widths, and so the offsets; the
\* alignments are those of the record layout table.
FieldAlign == <<"l", "r", "l", "r", "l", "r", "l", "l", "l", "l", "r", "l", "r", "r", "l">>

RECURSIVE FieldOffset(_)
FieldOffset(i) == IF i = 1 THEN 0 ELSE FieldOffset(i - 1) + FIELD_SPECS[i - 1].width

\* f is b cut to at most w bytes and padded with spaces to exactly w.
IsFitted(f, b, w, align) ==
    LET k == IF Len(b) < w THEN Len(b) ELSE w IN
    /\ Len(f) = w
    /\ \A j \in 1..w :
          f[j] = IF align = "l" THEN (IF j <= k THEN b[j] ELSE 32)
                 ELSE (IF j <= w - k THEN 32 ELSE b[j - (w - k)])

ProbeValues ==
    RecordValues(probe.row, probe.fixed, probe.start_date, probe.end_date,
                 probe.segment_type, probe.close_reason)

Returned == probe.kind = "build_record" /\ probe.done /\ probe.ret.raised = "none"

\* C1: every record build_record returns is exactly 208 bytes long, and each
\* of the 15 fields fills exactly its declared width at its declared offset
\* with its value, cut or space-padded to the width, whatever the lengths of the
\* values and in either output encoding.
C1_RecordLayout ==
    Returned =>
        LET record == probe.ret.record
            values == ProbeValues
        IN  /\ Len(record) = 208
            /\ \A i \in 1..Len(FIELD_SPECS) :
                  LET f == SubSeq(record, FieldOffset(i) + 1,
                                  FieldOffset(i) + FIELD_SPECS[i].width)
                      b == Encode(PyStr(values[i]), probe.encoding)
                  IN  IsFitted(f, b, FIELD_SPECS[i].width, FieldAlign[i])

\* A record was returned for a row with an empty name and an address whose
\* bytes far exceed the 120 of its field, in Big-5.
C1_Witness ==
    /\ Returned
    /\ probe.row.name = <<>>
    /\ Len(Encode(PyStr(probe.row.addr), probe.encoding)) > 120
    /\ probe.encoding = BIG5

----------------------------------------------------------------------------
(* Runs one after the other *)

Ran == call # NoCall

\* C2: a key selected into the batch of one unmatched run is not selected again
\* into the batch of a later unmatched run over the same tables and output
\* directory.
C2_NoReselection ==
    (Ran /\ call.mode = "unmatched") => KeysOf(df_to_process) \cap offered = {}

Min(a, b) == IF a < b THEN a ELSE b

\* The prior batch's rows the rejection file does not name.
Accepted == Mask(prior.records, [i \in 1..Len(prior.records) |-> i \notin call.rejected])

\* The candidates no earlier batch offered.
FreshCandidates ==
    {g \in Aggregate(EligibleRows(long_df, short_df)) : _clean_id(g.id) \notin offered}

\* C3: a refinement run (task next_batch with a rejection file, after an
\* unmatched batch) ends Written; its output is the prior batch's non-rejected
\* rows, unchanged and in order, followed by min(rejected, fresh candidates)
\* new records for keys never offered before.
C3_Refinement ==
    ( /\ Ran
      /\ call.mode = "next_batch"
      /\ call.rejection_var # ""
      /\ prior.mode = "unmatched"
      /\ prior.records # <<>> )
    => /\ status = "Written"
       /\ Len(records) = Len(Accepted)
                         + Min(Cardinality(call.rejected), Cardinality(FreshCandidates))
       /\ SubSeq(records, 1, Len(Accepted)) = Accepted
       /\ KeysOf(df_to_process) \cap offered = {}
       /\ Len(df_to_process) = Len(records) - Len(Accepted)

----------------------------------------------------------------------------
(* _clean_id on its own *)

\* The number of edits that make a raw identifier out of a canonical one.
MaxEdits == 3

CanonicalIds == {ID_A, <<"B", "2", "1">>}

\* The lower-case and the full-width forms of a character, where it has one.
LowerChar(c) ==
    IF IsAscii(c) /\ CodePoint(c) \in 65..90 THEN Printable[CodePoint(c) + 32 - 31] ELSE c

FullWidthChar(c) ==
    CASE c = "A" -> "FW_A"
      [] c = "a" -> "FW_a"
      [] c = "1" -> "FW_1"
      [] OTHER   -> c

InitId ==
    /\ long_df = <<>>
    /\ short_df = <<>>
    /\ Idle
    /\ \E k \in CanonicalIds :
          probe = [kind |-> "_clean_id", canon |-> k, raw |-> k, edits |-> 0,
                   done |-> FALSE, ret |-> <<>>]

Editing == probe.kind = "_clean_id" /\ ~probe.done /\ probe.edits < MaxEdits

Edit(raw) ==
    /\ probe' = [probe EXCEPT !.raw = raw, !.edits = @ + 1]
    /\ UNCHANGED << long_df, short_df, status, error, call, df_to_process, records,
                    skipped, written, outdir, runs, offered, prior >>

AddWhitespace == Editing /\ (Edit(<<" ">> \o probe.raw) \/ Edit(probe.raw \o <<" ">>))

AddApostrophe == Editing /\ (Edit(<<"'">> \o probe.raw) \/ Edit(probe.raw \o <<"'">>))

LowerCase ==
    /\ Editing
    /\ \E i \in 1..Len(probe.raw) :
          /\ LowerChar(probe.raw[i]) # probe.raw[i]
          /\ Edit([probe.raw EXCEPT ![i] = LowerChar(@)])

FullWidth ==
    /\ Editing
    /\ \E i \in 1..Len(probe.raw) :
          /\ FullWidthChar(probe.raw[i]) # probe.raw[i]
          /\ Edit([probe.raw EXCEPT ![i] = FullWidthChar(@)])

\* One call of _clean_id.
CleanId ==
    /\ probe.kind = "_clean_id"
    /\ ~probe.done
    /\ probe' = [probe EXCEPT !.done = TRUE, !.ret = _clean_id(probe.raw)]
    /\ UNCHANGED << long_df, short_df, status, error, call, df_to_process, records,
                    skipped, written, outdir, runs, offered, prior >>

NextId == AddWhitespace \/ AddApostrophe \/ LowerCase \/ FullWidth \/ CleanId

SpecId == InitId /\ [][NextId]_vars

\* C4: every raw identifier made from a canonical one by adding surrounding
\* whitespace or a leading or trailing apostrophe, lower-casing letters, or
\* replacing letters and digits by their full-width forms, cleans to that
\* canonical identifier.
C4_VariantsNormalize ==
    (probe.kind = "_clean_id" /\ probe.done) => probe.ret = probe.canon

----------------------------------------------------------------------------
(* One conversion *)

\* The selected rows whose records the last run wrote.
WrittenRows ==
    Mask(df_to_process,
         [i \in 1..Len(df_to_process) |->
             Built(df_to_process, call.args)[i].raised = "none"])

Converted == Ran /\ call.via = "convert"

\* C5: an empty or invalid identifier never matches: no record of a matched
\* run is built from rows whose identifier cleans to the invalid sentinel, and
\* no such row is a candidate of an unmatched run.
C5_InvalidNeverMatches ==
    Converted =>
        /\ \A i \in 1..Len(WrittenRows) : _clean_id(WrittenRows[i].id) # <<>>
        /\ \A i \in 1..Len(df_to_process) : _clean_id(df_to_process[i].id) # <<>>

\* The first row of the join with the key k.
FirstMerged(k) ==
    LET merged == merge_sources(long_df, short_df)
        i == CHOOSE i \in 1..Len(merged) :
                /\ _clean_id(merged[i].id) = k
                /\ \A j \in 1..(i - 1) : _clean_id(merged[j].id) # k
    IN  merged[i]

\* C6: a matched run writes at most one record per PatientKey, built from the
\* first matching combination of a registered and a visit row in input order.
C6_OnePerKey ==
    (Converted /\ call.mode = "matched" /\ status = "Written") =>
        /\ \A i, j \in 1..Len(WrittenRows) :
              i # j => _clean_id(WrittenRows[i].id) # _clean_id(WrittenRows[j].id)
        /\ \A i \in 1..Len(WrittenRows) :
              WrittenRows[i] = FirstMerged(_clean_id(WrittenRows[i].id))

NonBlank(cell) == cell # NaN /\ Strip(cell) # <<>>

RegisteredKeys == {_clean_id(short_df[i].id) : i \in 1..Len(short_df)}

\* C7: every candidate an unmatched run writes has a valid key that is not in
\* the registered list, a non-blank phone, name and birth date, and a
\* normalized identifier whose second character gives a sex code.
C7_CandidatesEligible ==
    (Converted /\ call.mode = "unmatched") =>
        \A i \in 1..Len(WrittenRows) :
            LET c == WrittenRows[i] IN
            /\ _clean_id(c.id) # <<>>
            /\ _clean_id(c.id) \notin RegisteredKeys
            /\ NonBlank(c.tel)
            /\ NonBlank(c.name)
            /\ NonBlank(c.birthday)
            /\ _map_sex(_clean_id(c.id)) # <<>>

----------------------------------------------------------------------------
(* One unmatched conversion *)

UnmatchedVisitRows ==
    VisitRows \cup
    { [id |-> ID_b, name |-> <<"V">>, birthday |-> Bday90, addr |-> <<"R", "6">>, tel |-> Tel9] }

InitUnmatched ==
    /\ long_df \in SeqsUpTo(UnmatchedVisitRows, MaxVisits)
    /\ short_df \in SeqsUpTo(RegisteredRows, 1)
    /\ Idle
    /\ probe = NoProbe

NextUnmatched ==
    /\ runs = 0
    /\ \E segment_type \in Segments : Convert("unmatched", segment_type, ENCODING)

SpecUnmatched == InitUnmatched /\ [][NextUnmatched]_vars

\* The candidates of the tables: one per eligible id.
Candidates == Aggregate(EligibleRows(long_df, short_df))

\* g ranks strictly higher than h: more visits, or as many and a greater
\* birth-date string.
RanksHigher(g, h) ==
    \/ g.visit_count > h.visit_count
    \/ g.visit_count = h.visit_count /\ StrLess(h.birthday, g.birthday)

\* The ID field of a record: bytes 15 to 24.
IdField(record) == SubSeq(record, 15, 24)

\* C8: the rows of an unmatched batch are at most the batch limit, in ranking
\* order, and a prefix of the ranking: no candidate left out ranks strictly
\* higher than a selected one, and all candidates are selected when they are
\* no more than the limit; the records are those of the selected rows, in the
\* same order.
C8_RankedPrefix ==
    (Converted /\ call.mode = "unmatched") =>
        LET cands == Candidates
            rows == WrittenRows
        IN  /\ Len(df_to_process) <= HEAD_LIMIT
            /\ Len(records) <= HEAD_LIMIT
            /\ Range(df_to_process) \subseteq cands
            /\ \A i, j \in 1..Len(df_to_process) :
                  i < j => /\ df_to_process[i] # df_to_process[j]
                           /\ ~RanksHigher(df_to_process[j], df_to_process[i])
            /\ \A c \in cands \ Range(df_to_process) :
                  /\ Len(df_to_process) = HEAD_LIMIT
                  /\ \A i \in 1..Len(df_to_process) : ~RanksHigher(c, df_to_process[i])
            /\ Len(records) = Len(rows)
            /\ \A i \in 1..Len(records) :
                  IdField(records[i]) = Encode(rows[i].id, call.args.out_encoding)

\* An unmatched run wrote a batch in which one selected row ranks strictly
\* higher than the next, and left out a candidate that ranks strictly lower
\* than the last selected row.
C8_Witness ==
    /\ Converted
    /\ call.mode = "unmatched"
    /\ status = "Written"
    /\ Len(df_to_process) = HEAD_LIMIT
    /\ RanksHigher(df_to_process[1], df_to_process[HEAD_LIMIT])
    /\ \E c \in Candidates \ Range(df_to_process) :
          RanksHigher(df_to_process[HEAD_LIMIT], c)

----------------------------------------------------------------------------
(* One conversion of tables with defective rows *)

BdaySlash == <<"0", "8", "5", "/", "0", "1", "/", "0", "1">>

BdayBlank == <<" ", " ">>

DefectVisitRows ==
    { [id |-> ID_A, name |-> <<"X">>, birthday |-> Bday85, addr |-> <<"R", "1">>, tel |-> Tel9],
      [id |-> ID_B, name |-> <<"Y">>, birthday |-> BdayShort, addr |-> <<"R", "2">>, tel |-> Tel9],
      [id |-> ID_E, name |-> <<"W">>, birthday |-> BdayBlank, addr |-> <<"R", "3">>, tel |-> Tel0] }

DefectRegisteredRows ==
    { [id |-> ID_A, birthday |-> BdaySlash, case |-> <<"6">>],
      [id |-> ID_B, birthday |-> NaN, case |-> <<"3">>],
      [id |-> ID_E, birthday |-> BdayLetter, case |-> <<"9">>] }

InitDefects ==
    /\ long_df \in SeqsUpTo(DefectVisitRows, MaxVisits)
    /\ short_df \in SeqsUpTo(DefectRegisteredRows, MaxRegistered)
    /\ Idle
    /\ probe = NoProbe

NextDefects ==
    /\ runs = 0
    /\ \E mode \in Modes, segment_type \in Segments : Convert(mode, segment_type, ENCODING)

SpecDefects == InitDefects /\ [][NextDefects]_vars

AsciiDigits(s) == s # <<>> /\ \A i \in 1..Len(s) : s[i] \in {Printable[k] : k \in 17..26}

\* The birth date without its surrounding whitespace and its separators.
DateText(cell) == RocClean(Strip(PyStr(cell)))

\* The birth date is a 6- or 7-digit ROC date.
IsRocDate(cell) ==
    cell # NaN /\ Len(DateText(cell)) \in {6, 7} /\ AsciiDigits(DateText(cell))

\* The BIRTHDAY field of a record: bytes 25 to 32.
BirthdayField(record) == SubSeq(record, 25, 32)

\* The Gregorian date of a ROC date of digits: 1911 added to the year.
Gregorian(date) ==
    Decimal(DigitsValue(SubSeq(date, 1, Len(date) - 4)) + 1911)
    \o SubSeq(date, Len(date) - 3, Len(date))

ReachedLoop == Converted /\ df_to_process # <<>>

\* The run skipped exactly the rows bad names, wrote a record for every other
\* row in the order of the rows, and did not fail.
SkipsExactly(bad) ==
    LET kept == Mask(df_to_process, [i \in 1..Len(df_to_process) |-> ~bad[i]])
        dropped == Mask(df_to_process, [i \in 1..Len(df_to_process) |-> bad[i]])
    IN  /\ status = (IF kept = <<>> THEN "Nothing" ELSE "Written")
        /\ skipped = [i \in 1..Len(dropped) |-> dropped[i].id]
        /\ Len(records) = Len(kept)
        /\ \A i \in 1..Len(kept) :
              /\ IsFitted(IdField(records[i]),
                          Encode(PyStr(kept[i].id), call.args.out_encoding), 10, "l")
              /\ IsRocDate(kept[i].birthday) =>
                    BirthdayField(records[i])
                    = Encode(Gregorian(DateText(kept[i].birthday)), call.args.out_encoding)
              /\ kept[i].birthday = Bday85 =>
                    BirthdayField(records[i]) = <<49, 57, 57, 54, 48, 49, 48, 49>>

\* C9: a row whose birth date is missing or is not a 6- or 7-digit
\* ROC date is skipped, alone; every other row is written, in order, with its
\* date converted by adding 1911 to the year.
C9_SkipsNonDates ==
    ReachedLoop =>
        SkipsExactly([i \in 1..Len(df_to_process) |-> ~IsRocDate(df_to_process[i].birthday)])

\* C10: in every mode, a run that ends with no valid record ends
\* with the empty result: no error, no path returned, no file created.
C10_EmptyIsNothing ==
    (Converted /\ records = <<>>) =>
        status = "Nothing" /\ error = "none" /\ written = <<>> /\ outdir = {}

----------------------------------------------------------------------------
(* One conversion of tables read from CSV text *)

\* pd.read_csv infers the type of a column from its cells.  The cells of the
\* model's files are empty, whole numbers, or other text: a column of whole
\* numbers is read as integers; one of whole numbers and empty cells as floats,
\* the empty cells missing; any other column as text, the empty cells missing.
\* A cell is kept as its str(): "6" for the integer 6, "6.0" for the float 6.0.
ReadCell(text, kind) ==
    IF text = <<>> THEN NaN
    ELSE IF kind = "int" THEN Decimal(DigitsValue(text))
    ELSE IF kind = "float" THEN Decimal(DigitsValue(text)) \o <<".", "0">>
    ELSE text

ColumnKind(texts) ==
    IF \A i \in 1..Len(texts) : AsciiDigits(texts[i]) THEN "int"
    ELSE IF \A i \in 1..Len(texts) : texts[i] = <<>> \/ AsciiDigits(texts[i]) THEN "float"
    ELSE "object"

ReadColumn(texts) ==
    [i \in 1..Len(texts) |-> ReadCell(texts[i], ColumnKind(texts))]

\* load_csv of the visits file and of the registered file.
LoadCells(ids, names, birthdays, addrs, tels) ==
    [i \in 1..Len(ids) |->
        [id |-> ids[i], name |-> names[i], birthday |-> birthdays[i],
         addr |-> addrs[i], tel |-> tels[i]]]

LoadVisits(csv) ==
    LoadCells(ReadColumn([i \in 1..Len(csv) |-> csv[i].id]),
              ReadColumn([i \in 1..Len(csv) |-> csv[i].name]),
              ReadColumn([i \in 1..Len(csv) |-> csv[i].birthday]),
              ReadColumn([i \in 1..Len(csv) |-> csv[i].addr]),
              ReadColumn([i \in 1..Len(csv) |-> csv[i].tel]))

LoadCases(ids, birthdays, cases) ==
    [i \in 1..Len(ids) |-> [id |-> ids[i], birthday |-> birthdays[i], case |-> cases[i]]]

LoadRegistered(csv) ==
    LoadCases(ReadColumn([i \in 1..Len(csv) |-> csv[i].id]),
              ReadColumn([i \in 1..Len(csv) |-> csv[i].birthday]),
              ReadColumn([i \in 1..Len(csv) |-> csv[i].case]))

\* The lines of the two files: identifiers with and without a leading
\* apostrophe and with the second characters 1, 2 and 5; case codes 6, 3 and
\* 9, a case that is not a number, and an empty one.
ID_Quoted == <<"'">> \o ID_A

ID_C5 == <<"C", "5">> \o IdTail

FieldVisitLines ==
    { [id |-> ID_A, name |-> <<"X">>, birthday |-> Bday85, addr |-> <<"R", "1">>, tel |-> Tel9],
      [id |-> ID_B, name |-> <<"Y">>, birthday |-> Bday70, addr |-> <<"R", "2">>, tel |-> Tel9],
      [id |-> ID_C5, name |-> <<"Z">>, birthday |-> Bday90, addr |-> <<"R", "3">>, tel |-> Tel9] }

FieldRegisteredLines ==
    { [id |-> ID_A, birthday |-> Bday85, case |-> <<"6">>],
      [id |-> ID_Quoted, birthday |-> Bday85, case |-> <<"3">>],
      [id |-> ID_B, birthday |-> Bday70, case |-> <<>>],
      [id |-> ID_C5, birthday |-> Bday90, case |-> <<"9">>],
      [id |-> ID_E, birthday |-> Bday90, case |-> <<"x">>] }

InitFields ==
    /\ \E long_csv \in SeqsUpTo(FieldVisitLines, MaxVisits),
          short_csv \in SeqsUpTo(FieldRegisteredLines, MaxRegistered) :
          /\ long_df = LoadVisits(long_csv)
          /\ short_df = LoadRegistered(short_csv)
          /\ probe = [kind |-> "csv", long_csv |-> long_csv, short_csv |-> short_csv]
    /\ Idle

NextFields ==
    /\ runs = 0
    /\ \E mode \in Modes, segment_type \in Segments : Convert(mode, segment_type, ENCODING)

SpecFields == InitFields /\ [][NextFields]_vars

\* The SEX field of a record: byte 45.  The CASE_TYPE field: byte 191.
SexField(record) == record[45]

CaseTypeField(record) == record[191]

\* The sex code the second character of a normalized identifier gives, as the
\* byte of the field.
SexOfKey(key) ==
    IF Len(key) >= 2 /\ key[2] \in {"1", "8"} THEN 49
    ELSE IF Len(key) >= 2 /\ key[2] \in {"2", "9"} THEN 50
    ELSE 32

\* C11: the SEX field of every record is given by the second character of the
\* normalized identifier of its row alone (1 or 8: "1", 2 or 9: "2", anything
\* else: blank), so that raw identifiers with the same key have the same SEX,
\* and no row is skipped for a sex that cannot be determined.
C11_SexOfNormalizedId ==
    (Converted /\ probe.kind = "csv") =>
        /\ Len(records) = Len(df_to_process)
        /\ \A i \in 1..Len(records) :
              SexField(records[i]) = SexOfKey(_clean_id(df_to_process[i].id))

\* The case code as the registered file gives it for the identifier id: the
\* text of the first line with that identifier.
RawCase(id) ==
    LET csv == probe.short_csv
        i == CHOOSE i \in 1..Len(csv) :
                csv[i].id = id /\ \A j \in 1..(i - 1) : csv[j].id # id
    IN  csv[i].case

\* The CASE_TYPE of a raw case code, as the byte of the field: "A" for 1, 2, 3,
\* 4, 5 and 7, "C" for 6, "B" for anything else.
CaseTypeOf(text) ==
    IF AsciiDigits(Strip(text)) /\ DigitsValue(Strip(text)) \in {1, 2, 3, 4, 5, 7} THEN 65
    ELSE IF AsciiDigits(Strip(text)) /\ DigitsValue(Strip(text)) = 6 THEN 67
    ELSE 66

\* C12: the CASE_TYPE of every record is that of the raw case code of its
\* row: "A" for the codes 1, 2, 3, 4, 5 and 7, "C" for 6, "B" for every other
\* value, missing or not a number included; the record is produced in every
\* case.
C12_CaseTypeTotal ==
    (Converted /\ probe.kind = "csv") =>
        /\ Len(records) = Len(df_to_process)
        /\ \A i \in 1..Len(records) :
              CaseTypeField(records[i])
              = IF call.mode = "unmatched" THEN 66
                ELSE CaseTypeOf(RawCase(df_to_process[i].id))

----------------------------------------------------------------------------
(* The candidates of an unmatched conversion *)

\* The eligible visit rows with the PatientKey key, in input order.
VisitsOfKey(key) ==
    LET eligible_df == EligibleRows(long_df, short_df)
    IN  Mask(eligible_df,
             [i \in 1..Len(eligible_df) |-> _clean_id(eligible_df[i].id) = key])

EligibleKeys ==
    LET eligible_df == EligibleRows(long_df, short_df)
    IN  {_clean_id(eligible_df[i].id) : i \in 1..Len(eligible_df)}

\* The candidate c counts the visits of its key and carries the cells of the
\* first of them.
IsFirstOfKey(c, visits) ==
    /\ visits # <<>>
    /\ c.visit_count = Len(visits)
    /\ c.name = visits[1].name
    /\ c.birthday = visits[1].birthday
    /\ c.addr = visits[1].addr
    /\ c.tel = visits[1].tel

\* C13: an unmatched run groups the eligible visits by PatientKey: no two
\* candidates have the same key, every key is a candidate's while the batch is
\* not full, a candidate's visit_count is the number of eligible visit rows
\* with its key, and its name, birth date, address and phone are those of the
\* first of these rows.
C13_GroupedByKey ==
    (Converted /\ call.mode = "unmatched") =>
        /\ \A i, j \in 1..Len(df_to_process) :
              i # j => _clean_id(df_to_process[i].id) # _clean_id(df_to_process[j].id)
        /\ Len(df_to_process) < HEAD_LIMIT => KeysOf(df_to_process) = EligibleKeys
        /\ \A i \in 1..Len(df_to_process) :
              IsFirstOfKey(df_to_process[i], VisitsOfKey(_clean_id(df_to_process[i].id)))

----------------------------------------------------------------------------
(* The writer of convert on its own *)

\* The number of records of a run.
MaxRecords == 5

\* The records of two rows.
RecordOf(row) ==
    build_record(row, Fixed, StartDate, EndDate, <<"A">>, CloseReason, ENCODING).record

WriterRecords ==
    { RecordOf([id |-> ID_A, name |-> <<"X">>, birthday |-> Bday85,
                addr |-> <<"R", "1">>, tel |-> Tel9, case |-> <<"6">>]),
      RecordOf([id |-> ID_B, name |-> <<"Y">>, birthday |-> Bday70,
                addr |-> <<"R", "2">>, tel |-> Tel9, case |-> <<"3">>]) }

\* The start sequences the operator enters.
SeqStarts == {1, 98, 99}

\* The writer runs on at least one record, and in unmatched mode on no more
\* than the batch limit.
InitWriter ==
    /\ long_df = <<>>
    /\ short_df = <<>>
    /\ Idle
    /\ \E recs \in SeqsUpTo(WriterRecords, MaxRecords), seq_start \in SeqStarts,
          mode \in Modes :
          /\ recs # <<>>
          /\ mode = "unmatched" => Len(recs) <= HEAD_LIMIT
          /\ probe = [kind |-> "writer", recs |-> recs, seq_start |-> seq_start,
                      mode |-> mode, done |-> FALSE, ret |-> <<>>]

\* The writer loop of convert.
WriteChunks ==
    /\ probe.kind = "writer"
    /\ ~probe.done
    /\ probe' = [probe EXCEPT
                    !.done = TRUE,
                    !.ret = WriteFiles(probe.recs, Fixed, UploadMonth, probe.seq_start,
                                       probe.mode)]
    /\ UNCHANGED << long_df, short_df, status, error, call, df_to_process, records,
                    skipped, written, outdir, runs, offered, prior >>

SpecWriter == InitWriter /\ [][WriteChunks]_vars

\* The records from to to of recs, each followed by CR LF.
RECURSIVE Terminated(_, _, _)
Terminated(recs, from, to) ==
    IF from > to THEN <<>>
    ELSE recs[from] \o <<13, 10>> \o Terminated(recs, from + 1, to)

\* The bytes of the files, one after the other.
RECURSIVE Concatenated(_)
Concatenated(files) ==
    IF files = <<>> THEN <<>> ELSE Head(files).bytes \o Concatenated(Tail(files))

\* name is the file name pattern with the number n as exactly two digits.
IsTwoDigitName(name, n, mode) ==
    LET stem == Fixed.BRANCH_CODE \o Fixed.HOSP_ID \o UploadMonth IN
    /\ Len(name) = Len(stem) + 2 + Len(FileSuffix(mode))
    /\ SubSeq(name, 1, Len(stem)) = stem
    /\ AsciiDigits(SubSeq(name, Len(stem) + 1, Len(stem) + 2))
    /\ DigitsValue(SubSeq(name, Len(stem) + 1, Len(stem) + 2)) = n
    /\ SubSeq(name, Len(stem) + 3, Len(name)) = FileSuffix(mode)

\* C15: for n records, the chunk size C of the mode and the start sequence s,
\* the writer makes ceil(n / C) files; the i-th has the number s + i - 1 as
\* exactly two digits in its name and holds the records (i - 1) * C + 1 to
\* min(i * C, n) in order, each followed by CR LF; the files one after the
\* other hold every record once, in order.
C15_ChunkedFiles ==
    (probe.kind = "writer" /\ probe.done) =>
        LET n == Len(probe.recs)
            C == ChunkSize(probe.mode)
            files == probe.ret
        IN  /\ Len(files) = (n + C - 1) \div C
            /\ \A i \in 1..Len(files) :
                  /\ IsTwoDigitName(files[i].name, probe.seq_start + i - 1, probe.mode)
                  /\ files[i].bytes
                     = Terminated(probe.recs, (i - 1) * C + 1, Min(i * C, n))
            /\ Concatenated(files) = Terminated(probe.recs, 1, n)

====
